---- MODULE Spec2Model ----
(***************************************************************************)
(* Model of the fiber node representation of ReactFiber.js: the node       *)
(* factory createFiber, the typed constructors and the double-buffering    *)
(* pool cloneFiber.  Fibers live in a heap addressed by index; a reference *)
(* to a fiber is its index and the null reference is 0.                    *)
(***************************************************************************)
EXTENDS Naturals, Integers, Sequences, FiniteSets, TLC

\* ---------------------------------------------------------------- bounds
MaxPositions == 1
MaxSteps == 4

\* ------------------------------------------------------ program constants
NoWork == 0

IndeterminateComponent == "IndeterminateComponent"
ClassComponent == "ClassComponent"
HostContainer == "HostContainer"
HostComponent == "HostComponent"
CoroutineComponent == "CoroutineComponent"
YieldComponent == "YieldComponent"

\* -------------------------------------------------------------- JS values
\* The null reference of a ?Fiber field.
NoFiber == 0

\* null in a field of type any / null | string.
Null == "null"

\* A value of type mixed: ty is the language type, s names the value and
\* ref is the heap index when the value is a fiber object.
JSVal(ty, s, ref) == [ty |-> ty, s |-> s, ref |-> ref]

NullVal == JSVal("null", "", 0)
UndefinedVal == JSVal("undefined", "", 0)
FiberVal(i) == JSVal("fiber", "", i)

\* typeof v: null and every object (a fiber or any other object) is 'object'.
TypeOf(v) ==
  IF v.ty \in {"null", "fiber", "plainobject"} THEN "object" ELSE v.ty

\* Component.prototype: an arrow function has none.
HasPrototype(Component) == Component.ty = "function" /\ Component.s # "Arrow"

\* Component.prototype.isReactComponent: set on classes that extend the
\* component base class.
IsReactComponent(Component) == Component.ty = "function" /\ Component.s = "Class"

shouldConstruct(Component) ==
  HasPrototype(Component) /\ IsReactComponent(Component)

\* ------------------------------------------------------------ the factory
createFiber_pending(tag, key) ==
  [ tag |-> tag,
    key |-> key,
    type |-> NullVal,
    stateNode |-> Null,
    return |-> NoFiber,
    child |-> NoFiber,
    sibling |-> NoFiber,
    ref |-> Null,
    pendingProps |-> Null,
    memoizedProps |-> Null,
    output |-> Null,
    nextEffect |-> NoFiber,
    firstEffect |-> NoFiber,
    lastEffect |-> NoFiber,
    pendingWorkPriority |-> 1,
    childInProgress |-> NoFiber,
    alternate |-> NoFiber ]

createFiber(tag, key) ==
  [ tag |-> tag,
    key |-> key,
    type |-> NullVal,
    stateNode |-> Null,
    return |-> NoFiber,
    child |-> NoFiber,
    sibling |-> NoFiber,
    ref |-> Null,
    pendingProps |-> Null,
    memoizedProps |-> Null,
    output |-> Null,
    nextEffect |-> NoFiber,
    firstEffect |-> NoFiber,
    lastEffect |-> NoFiber,
    pendingWorkPriority |-> NoWork,
    childInProgress |-> NoFiber,
    alternate |-> NoFiber ]

\* The outcome of a call: the heap and the non-fiber objects after it, the
\* value returned (UndefinedVal when it throws) and the error thrown.
Outcome(h, o, ret, err) == [heap |-> h, objs |-> o, ret |-> ret, err |-> err]

NoError == "none"

\* --------------------------------------------------------------- the pool
\* The reuse branch: the alternate alt refreshed from fiber.
reuseAlternate_staleStateNode(fiber, alt, priorityLevel) ==
  [alt EXCEPT !.child = fiber.child,
              !.childInProgress = fiber.childInProgress,
              !.sibling = fiber.sibling,
              !.ref = alt.ref,
              !.pendingProps = fiber.pendingProps,
              !.pendingWorkPriority = priorityLevel,
              !.nextEffect = NoFiber,
              !.firstEffect = NoFiber,
              !.lastEffect = NoFiber]

reuseAlternate_keepEffects(fiber, alt, priorityLevel) ==
  [alt EXCEPT !.stateNode = fiber.stateNode,
              !.child = fiber.child,
              !.childInProgress = fiber.childInProgress,
              !.sibling = fiber.sibling,
              !.ref = alt.ref,
              !.pendingProps = fiber.pendingProps,
              !.pendingWorkPriority = priorityLevel,
              !.nextEffect = NoFiber,
              !.firstEffect = NoFiber]

reuseAlternate_noChildInProgress(fiber, alt, priorityLevel) ==
  [alt EXCEPT !.stateNode = fiber.stateNode,
              !.child = fiber.child,
              !.sibling = fiber.sibling,
              !.ref = alt.ref,
              !.pendingProps = fiber.pendingProps,
              !.pendingWorkPriority = priorityLevel,
              !.nextEffect = NoFiber,
              !.firstEffect = NoFiber,
              !.lastEffect = NoFiber]

reuseAlternate_resetProgress(fiber, alt, priorityLevel) ==
  [alt EXCEPT !.stateNode = fiber.stateNode,
              !.child = fiber.child,
              !.childInProgress = NoFiber,
              !.sibling = fiber.sibling,
              !.ref = alt.ref,
              !.pendingProps = fiber.pendingProps,
              !.pendingWorkPriority = priorityLevel,
              !.nextEffect = NoFiber,
              !.firstEffect = NoFiber,
              !.lastEffect = NoFiber]

reuseAlternate_keepPending(fiber, alt, priorityLevel) ==
  [alt EXCEPT !.stateNode = fiber.stateNode,
              !.child = fiber.child,
              !.childInProgress = fiber.childInProgress,
              !.sibling = fiber.sibling,
              !.ref = alt.ref,
              !.pendingProps = IF alt.pendingProps # Null
                               THEN alt.pendingProps ELSE fiber.pendingProps,
              !.pendingWorkPriority = priorityLevel,
              !.nextEffect = NoFiber,
              !.firstEffect = NoFiber,
              !.lastEffect = NoFiber]

reuseAlternate(fiber, alt, priorityLevel) ==
  [alt EXCEPT !.stateNode = fiber.stateNode,
              !.child = fiber.child,
              !.childInProgress = fiber.childInProgress,
              !.sibling = fiber.sibling,
              !.ref = alt.ref,
              !.pendingProps = fiber.pendingProps,
              !.pendingWorkPriority = priorityLevel,
              !.nextEffect = NoFiber,
              !.firstEffect = NoFiber,
              !.lastEffect = NoFiber]

\* The allocating branch: the new alternate of the fiber at index self,
\* before fiber.alternate is set.
newAlternate_noType(fiber, self, priorityLevel) ==
  LET alt == createFiber(fiber.tag, fiber.key) IN
  [alt EXCEPT !.stateNode = fiber.stateNode,
              !.child = fiber.child,
              !.childInProgress = fiber.childInProgress,
              !.sibling = fiber.sibling,
              !.ref = alt.ref,
              !.pendingProps = fiber.pendingProps,
              !.pendingWorkPriority = priorityLevel,
              !.alternate = self]

newAlternate(fiber, self, priorityLevel) ==
  LET alt == createFiber(fiber.tag, fiber.key) IN
  [alt EXCEPT !.type = fiber.type,
              !.stateNode = fiber.stateNode,
              !.child = fiber.child,
              !.childInProgress = fiber.childInProgress,
              !.sibling = fiber.sibling,
              !.ref = alt.ref,
              !.pendingProps = fiber.pendingProps,
              !.pendingWorkPriority = priorityLevel,
              !.alternate = self]

cloneFiber_noBackLink(h, fiber, priorityLevel) ==
  LET alt == h[fiber].alternate IN
  IF alt # NoFiber
  THEN [heap |-> [h EXCEPT ![alt] = reuseAlternate(h[fiber], h[alt], priorityLevel)],
        ret |-> alt]
  ELSE [heap |-> Append(h, newAlternate(h[fiber], fiber, priorityLevel)),
        ret |-> Len(h) + 1]

cloneFiber_alwaysAllocate(h, fiber, priorityLevel) ==
  LET h1 == Append(h, newAlternate(h[fiber], fiber, priorityLevel))
  IN [heap |-> [h1 EXCEPT ![fiber].alternate = Len(h) + 1], ret |-> Len(h) + 1]

cloneFiber_marksSource(h, fiber, priorityLevel) ==
  LET alt == h[fiber].alternate IN
  IF alt # NoFiber
  THEN [heap |-> [h EXCEPT ![alt] = reuseAlternate(h[fiber], h[alt], priorityLevel),
                           ![fiber].pendingWorkPriority = priorityLevel],
        ret |-> alt]
  ELSE LET h1 == Append(h, newAlternate(h[fiber], fiber, priorityLevel))
       IN [heap |-> [h1 EXCEPT ![fiber].alternate = Len(h) + 1,
                               ![fiber].pendingWorkPriority = priorityLevel],
           ret |-> Len(h) + 1]

cloneFiber(h, fiber, priorityLevel) ==
  LET alt == h[fiber].alternate IN
  IF alt # NoFiber
  THEN [heap |-> [h EXCEPT ![alt] = reuseAlternate(h[fiber], h[alt], priorityLevel)],
        ret |-> alt]
  ELSE LET h1 == Append(h, newAlternate(h[fiber], fiber, priorityLevel))
       IN [heap |-> [h1 EXCEPT ![fiber].alternate = Len(h) + 1],
           ret |-> Len(h) + 1]

\* ------------------------------------------------- the typed constructors
createHostContainerFiber(h) ==
  [heap |-> Append(h, createFiber(HostContainer, Null)), ret |-> Len(h) + 1]

createFiberFromElementType_coerce(h, type, key) ==
  IF TypeOf(type) = "function"
  THEN LET made == IF shouldConstruct(type)
                   THEN createFiber(ClassComponent, key)
                   ELSE createFiber(IndeterminateComponent, key)
       IN [heap |-> Append(h, [made EXCEPT !.type = type]),
           ret |-> FiberVal(Len(h) + 1), err |-> NoError]
  ELSE IF TypeOf(type) \in {"string", "number"}
  THEN [heap |-> Append(h, [createFiber(HostComponent, key) EXCEPT !.type = type]),
        ret |-> FiberVal(Len(h) + 1), err |-> NoError]
  ELSE IF TypeOf(type) = "object" /\ type # NullVal
  THEN [heap |-> h, ret |-> type, err |-> NoError]
  ELSE [heap |-> h, ret |-> UndefinedVal, err |-> TypeOf(type)]

createFiberFromElementType_noContinuation(h, type, key) ==
  IF TypeOf(type) = "function"
  THEN LET made == IF shouldConstruct(type)
                   THEN createFiber(ClassComponent, key)
                   ELSE createFiber(IndeterminateComponent, key)
       IN [heap |-> Append(h, [made EXCEPT !.type = type]),
           ret |-> FiberVal(Len(h) + 1), err |-> NoError]
  ELSE IF TypeOf(type) = "string"
  THEN [heap |-> Append(h, [createFiber(HostComponent, key) EXCEPT !.type = type]),
        ret |-> FiberVal(Len(h) + 1), err |-> NoError]
  ELSE [heap |-> h, ret |-> UndefinedVal, err |-> TypeOf(type)]

createFiberFromElementType(h, type, key) ==
  IF TypeOf(type) = "function"
  THEN LET made == IF shouldConstruct(type)
                   THEN createFiber(ClassComponent, key)
                   ELSE createFiber(IndeterminateComponent, key)
       IN [heap |-> Append(h, [made EXCEPT !.type = type]),
           ret |-> FiberVal(Len(h) + 1), err |-> NoError]
  ELSE IF TypeOf(type) = "string"
  THEN [heap |-> Append(h, [createFiber(HostComponent, key) EXCEPT !.type = type]),
        ret |-> FiberVal(Len(h) + 1), err |-> NoError]
  ELSE IF TypeOf(type) = "object" /\ type # NullVal
  THEN [heap |-> h, ret |-> type, err |-> NoError]
  ELSE [heap |-> h, ret |-> UndefinedVal, err |-> TypeOf(type)]

createFiberFromElement_both(h, o, element, priorityLevel) ==
  LET made == createFiberFromElementType(h, element.type, element.key)
      fiber == made.ret
  IN IF made.err # NoError
     THEN Outcome(made.heap, o, made.ret, made.err)
     ELSE IF fiber.ty = "fiber"
     THEN LET h1 == [made.heap EXCEPT
                       ![fiber.ref].pendingProps = element.props,
                       ![fiber.ref].pendingWorkPriority = priorityLevel]
              alt == h1[fiber.ref].alternate
          IN Outcome(IF alt # NoFiber
                     THEN [h1 EXCEPT ![alt].pendingProps = element.props,
                                     ![alt].pendingWorkPriority = priorityLevel]
                     ELSE h1,
                     o, fiber, NoError)
     ELSE Outcome(made.heap,
                  [o EXCEPT ![fiber.s] =
                     [assigned |-> TRUE,
                      pendingProps |-> element.props,
                      pendingWorkPriority |-> priorityLevel]],
                  fiber, NoError)

createFiberFromElement(h, o, element, priorityLevel) ==
  LET made == createFiberFromElementType(h, element.type, element.key)
      fiber == made.ret
  IN IF made.err # NoError
     THEN Outcome(made.heap, o, made.ret, made.err)
     ELSE IF fiber.ty = "fiber"
     THEN Outcome([made.heap EXCEPT
                     ![fiber.ref].pendingProps = element.props,
                     ![fiber.ref].pendingWorkPriority = priorityLevel],
                  o, fiber, NoError)
     ELSE Outcome(made.heap,
                  [o EXCEPT ![fiber.s] =
                     [assigned |-> TRUE,
                      pendingProps |-> element.props,
                      pendingWorkPriority |-> priorityLevel]],
                  fiber, NoError)

createFiberFromCoroutine_props(h, coroutine, priorityLevel) ==
  LET made == createFiber(CoroutineComponent, coroutine.key)
      fiber == [made EXCEPT !.type = coroutine.handler,
                            !.pendingProps = coroutine.props,
                            !.pendingWorkPriority = priorityLevel]
  IN [heap |-> Append(h, fiber), ret |-> Len(h) + 1]

createFiberFromCoroutine(h, coroutine, priorityLevel) ==
  LET made == createFiber(CoroutineComponent, coroutine.key)
      fiber == [made EXCEPT !.type = coroutine.handler,
                            !.pendingProps = coroutine.id,
                            !.pendingWorkPriority = priorityLevel]
  IN [heap |-> Append(h, fiber), ret |-> Len(h) + 1]

\* The object literal {} assigned to pendingProps.
EmptyObject == "{}"

createFiberFromYield_priority(h, yieldNode, priorityLevel) ==
  LET made == createFiber(YieldComponent, yieldNode.key)
      fiber == [made EXCEPT !.pendingProps = EmptyObject,
                            !.pendingWorkPriority = priorityLevel]
  IN [heap |-> Append(h, fiber), ret |-> Len(h) + 1]

createFiberFromYield(h, yieldNode, priorityLevel) ==
  LET made == createFiber(YieldComponent, yieldNode.key)
      fiber == [made EXCEPT !.pendingProps = EmptyObject]
  IN [heap |-> Append(h, fiber), ret |-> Len(h) + 1]

\* ------------------------------------------------- call and return markers
REACT_CALL_TYPE == "react.call"
REACT_RETURN_TYPE == "react.return"

\* '' + v: the string that spells the value.
StringOf(v) == JSVal("string", v.s, 0)

\* object.$$typeof: undefined when the value has no such property.
TypeofTag(object) ==
  IF "$$typeof" \in DOMAIN object THEN object["$$typeof"] ELSE "undefined"

\* dev is __DEV__: the development build freezes the props and the call.
unstable_createCall_rawKey(children, handler, props, key, dev) ==
  ("$$typeof" :> REACT_CALL_TYPE) @@
  [ty |-> "plainobject", s |-> "call", ref |-> 0,
   key |-> key,
   children |-> children,
   handler |-> handler,
   props |-> props,
   propsFrozen |-> dev,
   frozen |-> dev]

unstable_createCall(children, handler, props, key, dev) ==
  ("$$typeof" :> REACT_CALL_TYPE) @@
  [ty |-> "plainobject", s |-> "call", ref |-> 0,
   key |-> LET k == IF key = UndefinedVal THEN NullVal ELSE key
           IN IF k \in {NullVal, UndefinedVal} THEN NullVal ELSE StringOf(k),
   children |-> children,
   handler |-> handler,
   props |-> props,
   propsFrozen |-> dev,
   frozen |-> dev]

unstable_createReturn(value, dev) ==
  ("$$typeof" :> REACT_RETURN_TYPE) @@
  [ty |-> "plainobject", s |-> "return", ref |-> 0,
   value |-> value,
   frozen |-> dev]

unstable_isCall(object) ==
  /\ TypeOf(object) = "object"
  /\ object # NullVal
  /\ TypeofTag(object) = REACT_CALL_TYPE

unstable_isReturn_asCall(object) ==
  /\ TypeOf(object) = "object"
  /\ object # NullVal
  /\ TypeofTag(object) = REACT_CALL_TYPE

unstable_isReturn(object) ==
  /\ TypeOf(object) = "object"
  /\ object # NullVal
  /\ TypeofTag(object) = REACT_RETURN_TYPE

\* ------------------------------------------------------------- the inputs
FnClass == JSVal("function", "Class", 0)
FnPlain == JSVal("function", "Plain", 0)
FnArrow == JSVal("function", "Arrow", 0)
StrDiv == JSVal("string", "div", 0)
Num42 == JSVal("number", "42", 0)
BoolTrue == JSVal("boolean", "true", 0)

\* Objects that are not fibers (an object literal handed in as a type).
PlainObjects == {"obj1"}
PlainVal(name) == JSVal("plainobject", name, 0)

Element(type, key, props) == [type |-> type, key |-> key, props |-> props]

\* The element types a caller can hand in: every runtime type of the
\* language, and every fiber allocated so far.
ElementTypes(h) ==
  {FnClass, FnPlain, FnArrow, StrDiv, Num42, BoolTrue, UndefinedVal, NullVal}
    \cup {PlainVal(name) : name \in PlainObjects}
    \cup {FiberVal(i) : i \in 1..Len(h)}

KeyOf(type) == IF type \in {FnClass, StrDiv, Num42, NullVal} THEN "a" ELSE Null

\* One element per type; the keys vary over the elements.
Elements(h) == {Element(type, KeyOf(type), "props1") : type \in ElementTypes(h)}

Coroutines == {[id |-> "coroutine1", key |-> "a", handler |-> FnPlain, props |-> "coprops1"]}

Yields == {[id |-> "yield1", key |-> Null], [id |-> "yield2", key |-> "a"]}

\* The priorities a caller asks for.
Priorities == {1, 2}

\* The arguments of the call and return factories.
Children == {StrDiv, NullVal}
Handlers == {FnPlain}
CallProps == {"coprops1", "coprops2"}
Keys == {NullVal, UndefinedVal, JSVal("string", "a", 0), JSVal("string", "", 0), Num42}
ReturnValues == {Num42, NullVal, StrDiv}

\* A function that carries the tag of a call.
TaggedFunction == ("$$typeof" :> REACT_CALL_TYPE) @@ FnPlain

\* The values handed to the predicates besides the markers themselves.
Mixed ==
  {NullVal, UndefinedVal, Num42, StrDiv, BoolTrue, FnPlain, TaggedFunction}
    \cup {PlainVal(name) : name \in PlainObjects}

\* --------------------------------------------------------------- the state
\* heap:     the fibers allocated so far, by index
\* objs:     the own properties of the objects that are not fibers
\* result:   the last operation, its arguments and what it returned or threw
\* position: for every fiber the index of the constructor-made fiber of its
\*           tree position (a fiber made by cloneFiber shares the source's)
\* steps:    the number of calls and field assignments made so far
\* marker:   the last operation of the call and return module, the object it
\*           made or was handed, and its answer
VARIABLES heap, objs, result, position, steps, marker

vars == <<heap, objs, result, position, steps, marker>>

NoElement == Element(UndefinedVal, Null, Null)

Result(op, fiber, element, priority, field, ret, err, fresh) ==
  [op |-> op, fiber |-> fiber, element |-> element, priority |-> priority,
   field |-> field, ret |-> ret, err |-> err, fresh |-> fresh]

Init ==
  /\ heap = <<>>
  /\ objs = [name \in PlainObjects |->
               [assigned |-> FALSE, pendingProps |-> Null,
                pendingWorkPriority |-> NoWork]]
  /\ result = Result("init", NoFiber, NoElement, NoWork, "", UndefinedVal, NoError, FALSE)
  /\ position = <<>>
  /\ steps = 0
  /\ marker = [op |-> "init", object |-> UndefinedVal, key |-> UndefinedVal,
               from |-> "other", answer |-> FALSE]

\* The tree positions: the fibers made by a constructor.
Roots == {i \in 1..Len(position) : position[i] = i}

\* A call that leaves the heap at h1 stays within the bounds of the model.
Fits(h1) ==
  Len(h1) > Len(heap) => Cardinality(Roots) < MaxPositions

\* A constructor that allocates gives the new fiber a tree position of its own.
Positions(h1) ==
  IF Len(h1) > Len(position) THEN Append(position, Len(h1)) ELSE position

CloneFiber ==
  \E fiber \in 1..Len(heap), priorityLevel \in Priorities :
    LET out == cloneFiber(heap, fiber, priorityLevel) IN
    /\ steps < MaxSteps
    /\ heap' = out.heap
    /\ position' = IF Len(out.heap) > Len(heap)
                   THEN Append(position, position[fiber]) ELSE position
    /\ result' = Result("cloneFiber", fiber, NoElement, priorityLevel, "",
                        FiberVal(out.ret), NoError, Len(out.heap) > Len(heap))
    /\ steps' = steps + 1
    /\ UNCHANGED <<objs, marker>>

CreateHostContainerFiber ==
  LET out == createHostContainerFiber(heap) IN
  /\ steps < MaxSteps
  /\ Fits(out.heap)
  /\ heap' = out.heap
  /\ position' = Positions(out.heap)
  /\ result' = Result("createHostContainerFiber", NoFiber, NoElement, NoWork, "",
                      FiberVal(out.ret), NoError, TRUE)
  /\ steps' = steps + 1
  /\ UNCHANGED <<objs, marker>>

CreateFiberFromElement ==
  \E element \in Elements(heap), priorityLevel \in Priorities :
    LET out == createFiberFromElement(heap, objs, element, priorityLevel) IN
    /\ steps < MaxSteps
    /\ Fits(out.heap)
    /\ heap' = out.heap
    /\ objs' = out.objs
    /\ position' = Positions(out.heap)
    /\ result' = Result("createFiberFromElement", NoFiber, element, priorityLevel, "",
                        out.ret, out.err, Len(out.heap) > Len(heap))
    /\ steps' = steps + 1
    /\ UNCHANGED marker

CreateFiberFromElementType ==
  \E type \in ElementTypes(heap) :
    LET out == createFiberFromElementType(heap, type, KeyOf(type)) IN
    /\ steps < MaxSteps
    /\ Fits(out.heap)
    /\ heap' = out.heap
    /\ position' = Positions(out.heap)
    /\ result' = Result("createFiberFromElementType", NoFiber,
                        Element(type, KeyOf(type), Null), NoWork, "",
                        out.ret, out.err, Len(out.heap) > Len(heap))
    /\ steps' = steps + 1
    /\ UNCHANGED <<objs, marker>>

CreateFiberFromCoroutine ==
  \E coroutine \in Coroutines, priorityLevel \in Priorities :
    LET out == createFiberFromCoroutine(heap, coroutine, priorityLevel) IN
    /\ steps < MaxSteps
    /\ Fits(out.heap)
    /\ heap' = out.heap
    /\ position' = Positions(out.heap)
    /\ result' = Result("createFiberFromCoroutine", NoFiber,
                        Element(coroutine.handler, coroutine.key, coroutine.id),
                        priorityLevel, "", FiberVal(out.ret), NoError, TRUE)
    /\ steps' = steps + 1
    /\ UNCHANGED <<objs, marker>>

CreateFiberFromYield ==
  \E yieldNode \in Yields, priorityLevel \in Priorities :
    LET out == createFiberFromYield(heap, yieldNode, priorityLevel) IN
    /\ steps < MaxSteps
    /\ Fits(out.heap)
    /\ heap' = out.heap
    /\ position' = Positions(out.heap)
    /\ result' = Result("createFiberFromYield", NoFiber,
                        Element(UndefinedVal, yieldNode.key, yieldNode.id),
                        priorityLevel, "", FiberVal(out.ret), NoError, TRUE)
    /\ steps' = steps + 1
    /\ UNCHANGED <<objs, marker>>

\* ------------------------------------------- direct assignments to fields
\* The fields of type ?Fiber a caller assigns, and the other fields.
FiberFields ==
  {"return", "child", "sibling", "childInProgress",
   "nextEffect", "firstEffect", "lastEffect"}

ValueFields == {"stateNode", "ref", "pendingProps", "memoizedProps", "output"}

ValuesOf(field) ==
  CASE field = "stateNode" -> {"instance1"}
    [] field = "ref" -> {"ref1"}
    [] field = "pendingProps" -> {"props2"}
    [] field = "memoizedProps" -> {"props1"}
    [] field = "output" -> {"output1"}

\* The fiber a caller links a node to: the one allocated last.
LinkTargets(h) == {Len(h)}

Assigned(h, fiber, field, value) ==
  [h EXCEPT ![fiber] = [g \in DOMAIN h[fiber] |->
                          IF g = field THEN value ELSE h[fiber][g]]]

\* The caller assigns a field of the fiber it was handed last.
AssignField ==
  /\ steps < MaxSteps
  /\ result.ret.ty = "fiber"
  /\ LET fiber == result.ret.ref IN
       \/ \E field \in FiberFields, value \in LinkTargets(heap) :
            /\ heap' = Assigned(heap, fiber, field, value)
            /\ result' = Result("assign", fiber, NoElement, NoWork, field,
                                result.ret, NoError, FALSE)
       \/ \E field \in ValueFields :
            \E value \in ValuesOf(field) :
              /\ heap' = Assigned(heap, fiber, field, value)
              /\ result' = Result("assign", fiber, NoElement, NoWork, field,
                                  result.ret, NoError, FALSE)
       \/ \E value \in {NoWork} :
            /\ heap' = Assigned(heap, fiber, "pendingWorkPriority", value)
            /\ result' = Result("assign", fiber, NoElement, NoWork,
                                "pendingWorkPriority", result.ret, NoError, FALSE)
  /\ steps' = steps + 1
  /\ UNCHANGED <<objs, position, marker>>

\* The exported operations.
Next ==
  \/ CloneFiber
  \/ CreateHostContainerFiber
  \/ CreateFiberFromElement
  \/ CreateFiberFromElementType
  \/ CreateFiberFromCoroutine
  \/ CreateFiberFromYield

Spec == Init /\ [][Next]_vars

\* The pool under a caller that assigns fields of the fibers it is handed.
PoolNext ==
  \/ CloneFiber
  \/ CreateFiberFromElement
  \/ AssignField

PoolSpec == Init /\ [][PoolNext]_vars

\* The caller assigns the alternate of the fiber it was handed last: null, the
\* fiber itself or any other fiber.
AssignAlternate ==
  /\ steps < MaxSteps
  /\ result.ret.ty = "fiber"
  /\ LET fiber == result.ret.ref IN
       \E value \in {NoFiber} \cup (1..Len(heap)) :
         /\ heap' = Assigned(heap, fiber, "alternate", value)
         /\ result' = Result("assign", fiber, NoElement, NoWork, "alternate",
                             result.ret, NoError, FALSE)
  /\ steps' = steps + 1
  /\ UNCHANGED <<objs, position, marker>>

\* The pool under a caller that breaks the pairing of the fibers it is handed.
MisuseNext ==
  \/ CloneFiber
  \/ CreateFiberFromElement
  \/ AssignAlternate

MisuseSpec == Init /\ [][MisuseNext]_vars

\* The evaluator resolves the kind of the fiber it was handed last: it assigns
\* a concrete tag to a fiber whose tag is IndeterminateComponent.
ResolveKind ==
  /\ steps < MaxSteps
  /\ result.ret.ty = "fiber"
  /\ LET fiber == result.ret.ref IN
       /\ heap[fiber].tag = IndeterminateComponent
       /\ heap' = Assigned(heap, fiber, "tag", ClassComponent)
       /\ result' = Result("assign", fiber, NoElement, NoWork, "tag",
                           result.ret, NoError, FALSE)
  /\ steps' = steps + 1
  /\ UNCHANGED <<objs, position, marker>>

\* The pool under an evaluator that resolves the kind of indeterminate fibers.
EvalNext ==
  \/ CloneFiber
  \/ CreateFiberFromElement
  \/ ResolveKind

EvalSpec == Init /\ [][EvalNext]_vars

\* ------------------------------------------ the call and return operations
Marker(op, object, key, from, answer) ==
  [op |-> op, object |-> object, key |-> key, from |-> from, answer |-> answer]

UnstableCreateCall ==
  /\ \E children \in Children, handler \in Handlers, props \in CallProps,
        key \in Keys, dev \in BOOLEAN :
       marker' = Marker("unstable_createCall",
                        unstable_createCall(children, handler, props, key, dev),
                        key, "unstable_createCall", FALSE)
  /\ UNCHANGED <<heap, objs, result, position, steps>>

UnstableCreateReturn ==
  /\ \E value \in ReturnValues, dev \in BOOLEAN :
       marker' = Marker("unstable_createReturn",
                        unstable_createReturn(value, dev),
                        UndefinedVal, "unstable_createReturn", FALSE)
  /\ UNCHANGED <<heap, objs, result, position, steps>>

\* Where the value handed to a predicate comes from: the factory that made
\* the object held, or elsewhere.
Origin(object) == IF object = marker.object THEN marker.from ELSE "other"

UnstableIsCall ==
  /\ \E object \in {marker.object} \cup Mixed :
       marker' = Marker("unstable_isCall", object, UndefinedVal,
                        Origin(object), unstable_isCall(object))
  /\ UNCHANGED <<heap, objs, result, position, steps>>

UnstableIsReturn ==
  /\ \E object \in {marker.object} \cup Mixed :
       marker' = Marker("unstable_isReturn", object, UndefinedVal,
                        Origin(object), unstable_isReturn(object))
  /\ UNCHANGED <<heap, objs, result, position, steps>>

\* The exported operations of the call and return module.
CallReturnNext ==
  \/ UnstableCreateCall
  \/ UnstableCreateReturn
  \/ UnstableIsCall
  \/ UnstableIsReturn

CallReturnSpec == Init /\ [][CallReturnNext]_vars

\* ------------------------------------------------------------- properties
\* The fiber the last call returned, and the fiber it was applied to.
Returned == result.ret.ref
Source == result.fiber

Cloned == result.op = "cloneFiber"

\* This step is a call of cloneFiber.
ClonesNow == steps' = steps + 1 /\ result'.op = "cloneFiber"

\* This step is a call of a constructor or of cloneFiber.
CallsNow == steps' = steps + 1 /\ result'.op # "assign"

Paired(h, n) == h[n].alternate # NoFiber

\* C1: pairing symmetry.  In every reachable state x.alternate = y implies
\* y.alternate = x, and right after cloneFiber(n, p) returns a, a.alternate
\* is n and n.alternate is a.
PairingSymmetry ==
  /\ \A x, y \in 1..Len(heap) :
       heap[x].alternate = y => heap[y].alternate = x
  /\ Cloned => /\ heap[Returned].alternate = Source
               /\ heap[Source].alternate = Returned

\* cloneFiber has returned the existing alternate of a node paired earlier.
PairingSymmetryWitness ==
  /\ Cloned /\ ~result.fresh
  /\ Returned # Source
  /\ heap[Returned].alternate = Source

\* C2: at most two nodes per tree position.  No position ever has more than
\* two fibers; a cloneFiber on a node that has an alternate allocates nothing
\* and returns that alternate, so that cloning the alternate returns the node
\* it was made from; a cloneFiber on a node without one allocates exactly one.
AtMostTwo ==
  /\ [](\A root \in Roots :
          Cardinality({i \in 1..Len(position) : position[i] = root}) <= 2)
  /\ [][ClonesNow =>
          LET n == result'.fiber IN
            IF Paired(heap, n)
            THEN /\ Len(heap') = Len(heap)
                 /\ result'.ret = FiberVal(heap[n].alternate)
                 /\ heap[heap[n].alternate].alternate = n
            ELSE /\ Len(heap') = Len(heap) + 1
                 /\ result'.ret = FiberVal(Len(heap'))]_vars

\* cloneFiber applied to the alternate has returned the constructor-made node.
AtMostTwoWitness ==
  /\ Cloned /\ ~result.fresh
  /\ position[Source] # Source
  /\ Returned = position[Source]
  /\ Cardinality({i \in 1..Len(position) : position[i] = Returned}) = 2

\* The statement of C3 as the specification makes it: in every reachable
\* state the two nodes of a pair have the same stateNode.
SharedInstanceAlways ==
  \A n \in 1..Len(heap) :
    Paired(heap, n) => heap[n].stateNode = heap[heap[n].alternate].stateNode

SameInstance(h, n) == h[n].stateNode = h[h[n].alternate].stateNode

\* C3 (amended): right after cloneFiber(n, p) returns a, a.stateNode is
\* n.stateNode, and every call of a constructor or of cloneFiber keeps the
\* stateNode of a pair equal if it was equal before; only a direct assignment
\* to the stateNode of one node of a pair can make the two differ, and the
\* next cloneFiber on either node of the pair makes them equal again.
SharedInstanceAfterClone ==
  [][CallsNow =>
      /\ result'.op = "cloneFiber" =>
           heap'[result'.ret.ref].stateNode = heap[result'.fiber].stateNode
      /\ \A n \in 1..Len(heap') :
           Paired(heap', n) =>
             \/ SameInstance(heap', n)
             \/ /\ n <= Len(heap)
                /\ Paired(heap, n)
                /\ ~SameInstance(heap, n)]_vars

\* An existing alternate has been refreshed with an instance that was
\* assigned to the source node.
SharedInstanceWitness ==
  /\ Cloned /\ ~result.fresh
  /\ heap[Source].stateNode = "instance1"
  /\ heap[Returned].stateNode = "instance1"

\* C4: effect-list reset.  After any cloneFiber, on the reuse path and on the
\* allocating path, nextEffect, firstEffect and lastEffect of the returned
\* node are null whatever the node and its source held before.
EffectListReset ==
  [][ClonesNow =>
      LET a == result'.ret.ref IN
        /\ heap'[a].nextEffect = NoFiber
        /\ heap'[a].firstEffect = NoFiber
        /\ heap'[a].lastEffect = NoFiber]_vars

\* An existing alternate has been returned with an empty effect list while
\* its source still holds an effect link.
EffectListResetWitness ==
  /\ Cloned /\ ~result.fresh
  /\ \/ heap[Source].nextEffect # NoFiber
     \/ heap[Source].firstEffect # NoFiber
     \/ heap[Source].lastEffect # NoFiber
  /\ heap[Returned].nextEffect = NoFiber
  /\ heap[Returned].firstEffect = NoFiber
  /\ heap[Returned].lastEffect = NoFiber

\* C5: ref preservation.  After cloneFiber(n, p) returns a, a.ref is n.ref,
\* when a is newly allocated and when an existing alternate is refreshed.
RefPreserved ==
  Cloned => heap[Returned].ref = heap[Source].ref

\* C6: clone field refresh.  After cloneFiber(n, p) returns a, on both paths,
\* stateNode, child, childInProgress, sibling and pendingProps of a are the
\* values n held when the call was made, and a.pendingWorkPriority is p.
CloneFieldRefresh ==
  [][ClonesNow =>
      LET n == heap[result'.fiber]
          a == heap'[result'.ret.ref]
      IN /\ a.stateNode = n.stateNode
         /\ a.child = n.child
         /\ a.childInProgress = n.childInProgress
         /\ a.sibling = n.sibling
         /\ a.pendingProps = n.pendingProps
         /\ a.pendingWorkPriority = result'.priority]_vars

\* An existing alternate has been refreshed from a source that holds an
\* assigned tree-shape field and a priority other than the one asked for.
CloneFieldRefreshWitness ==
  /\ Cloned /\ ~result.fresh
  /\ \/ heap[Source].child # NoFiber
     \/ heap[Source].childInProgress # NoFiber
     \/ heap[Source].sibling # NoFiber
  /\ heap[Returned].child = heap[Source].child
  /\ heap[Returned].childInProgress = heap[Source].childInProgress
  /\ heap[Returned].sibling = heap[Source].sibling
  /\ heap[Source].pendingWorkPriority # result.priority
  /\ heap[Returned].pendingWorkPriority = result.priority

\* C7: a newly created alternate is a structural copy.  cloneFiber on a node
\* without an alternate returns a new object, distinct from the node, whose
\* tag, key and type are the node's.
StructuralCopy ==
  [][(ClonesNow /\ ~Paired(heap, result'.fiber)) =>
      LET n == heap[result'.fiber]
          a == result'.ret.ref
      IN /\ a \notin 1..Len(heap)
         /\ a \in 1..Len(heap')
         /\ a # result'.fiber
         /\ heap'[a].tag = n.tag
         /\ heap'[a].key = n.key
         /\ heap'[a].type = n.type]_vars

\* A new alternate has been made of a keyed node with a type.
StructuralCopyWitness ==
  /\ Cloned /\ result.fresh
  /\ heap[Source].type # NullVal
  /\ heap[Source].key # Null
  /\ heap[Returned].type = heap[Source].type
  /\ heap[Returned].key = heap[Source].key

\* The fields a repeated cloneFiber at another priority may change.
PriorityAndEffects ==
  {"pendingWorkPriority", "nextEffect", "firstEffect", "lastEffect"}

\* C8: clone idempotence.  A cloneFiber(n, p) that directly follows a
\* cloneFiber(n, q) returns the same object; when p = q it leaves every field
\* of every node as the first call left it, and otherwise it changes only
\* pendingWorkPriority and the effect-list fields of the alternate.
CloneIdempotent ==
  [][(Cloned /\ ClonesNow /\ result'.fiber = result.fiber) =>
      /\ result'.ret = result.ret
      /\ objs' = objs
      /\ position' = position
      /\ result'.priority = result.priority => heap' = heap
      /\ Len(heap') = Len(heap)
      /\ \A i \in 1..Len(heap) :
           \A field \in DOMAIN heap[i] :
             \/ heap'[i][field] = heap[i][field]
             \/ i = result.ret.ref /\ field \in PriorityAndEffects]_vars

\* cloneFiber has been called twice in a row on the constructor-made node.
CloneIdempotentWitness ==
  /\ Cloned /\ ~result.fresh
  /\ steps = 3
  /\ Len(heap) = 2
  /\ Source = 1 /\ Returned = 2

\* The element type of the last createFiberFromElement(Type) call.
Constructs ==
  result.op \in {"createFiberFromElement", "createFiberFromElementType"}

GivenType == result.element.type

\* The last call has returned a newly allocated fiber of the given tag whose
\* key and type are the element's.
MadeFiber(tag) ==
  /\ result.err = NoError
  /\ result.fresh
  /\ result.ret = FiberVal(Len(heap))
  /\ heap[Returned].tag = tag
  /\ heap[Returned].key = result.element.key
  /\ heap[Returned].type = GivenType

\* C9: kind resolution.  A function marked isReactComponent on its prototype
\* gives a ClassComponent, any other function an IndeterminateComponent, a
\* string a HostComponent of that type, each newly allocated with the
\* element's key and type; a type that is not a function, a string or an
\* existing node fails with InvalidElementType.
KindResolution ==
  Constructs =>
    /\ (GivenType.ty = "function" /\ GivenType.s = "Class") =>
         MadeFiber(ClassComponent)
    /\ (GivenType.ty = "function" /\ GivenType.s # "Class") =>
         MadeFiber(IndeterminateComponent)
    /\ GivenType.ty = "string" => MadeFiber(HostComponent)
    /\ GivenType.ty \notin {"function", "string", "fiber"} =>
         result.err # NoError

\* The runtime types that are not a function, a string or a non-null object.
Unresolvable == {"number", "boolean", "undefined", "null"}

\* C10: InvalidElementType.  createFiberFromElement(Type) on a type that is a
\* number, a boolean, undefined or null throws an error that carries typeof
\* of the type, returns no node and changes no field of any node or object.
InvalidElementType ==
  [][(CallsNow
        /\ result'.op \in {"createFiberFromElement", "createFiberFromElementType"}
        /\ result'.element.type.ty \in Unresolvable) =>
      /\ result'.err = TypeOf(result'.element.type)
      /\ result'.err # NoError
      /\ result'.ret = UndefinedVal
      /\ ~result'.fresh
      /\ heap' = heap
      /\ objs' = objs]_vars

\* createFiberFromElement has thrown on a number while a pair of nodes exists.
InvalidElementTypeWitness ==
  /\ result.op = "createFiberFromElement"
  /\ GivenType = Num42
  /\ result.err = "number"
  /\ Len(heap) = 2

\* C11: continuation passthrough.  When the type of the element is an existing
\* fiber, createFiberFromElementType and createFiberFromElement return that
\* very fiber, without an error, and allocate no fiber.
ContinuationPassthrough ==
  [][(/\ CallsNow
      /\ result'.op \in {"createFiberFromElement", "createFiberFromElementType"}
      /\ result'.element.type.ty = "fiber")
       => /\ result'.ret = result'.element.type
          /\ result'.err = NoError
          /\ ~result'.fresh
          /\ Len(heap') = Len(heap)]_vars

\* createFiberFromElement has been handed a fiber that has an alternate, as the
\* type of the element, and has returned it.
ContinuationPassthroughWitness ==
  /\ result.op = "createFiberFromElement"
  /\ result.element.type.ty = "fiber"
  /\ result.ret = result.element.type
  /\ Paired(heap, Returned)
  /\ Len(heap) = 2

\* C12: yield nodes are created idle.  For every yield description and every
\* priority argument createFiberFromYield returns a newly allocated fiber of
\* tag YieldComponent whose pendingWorkPriority is NoWork, whose key is the key
\* of the description and whose pendingProps is an empty object.
YieldCreatedIdle ==
  result.op = "createFiberFromYield" =>
    /\ result.fresh
    /\ Returned = Len(heap)
    /\ heap[Returned].tag = YieldComponent
    /\ heap[Returned].pendingWorkPriority = NoWork
    /\ heap[Returned].key = result.element.key
    /\ heap[Returned].pendingProps = EmptyObject

\* createFiberFromYield has been called with a keyed description and a priority
\* that is not NoWork.
YieldCreatedIdleWitness ==
  /\ result.op = "createFiberFromYield"
  /\ result.priority # NoWork
  /\ result.element.key # Null
  /\ heap[Returned].key = result.element.key
  /\ heap[Returned].pendingWorkPriority = NoWork

\* C13: coroutine node construction.  createFiberFromCoroutine(c, p) returns a
\* newly allocated fiber of tag CoroutineComponent whose key is c.key, whose
\* type is c.handler, whose pendingProps is the description c itself and not
\* c.props, whose pendingWorkPriority is p and whose alternate is null.
CoroutineConstruction ==
  result.op = "createFiberFromCoroutine" =>
    \E c \in Coroutines :
      /\ result.element = Element(c.handler, c.key, c.id)
      /\ result.fresh
      /\ Returned = Len(heap)
      /\ heap[Returned].tag = CoroutineComponent
      /\ heap[Returned].key = c.key
      /\ heap[Returned].type = c.handler
      /\ heap[Returned].pendingProps = c.id
      /\ heap[Returned].pendingProps # c.props
      /\ heap[Returned].pendingWorkPriority = result.priority
      /\ heap[Returned].alternate = NoFiber

\* createFiberFromCoroutine has been called with the higher of the priorities.
CoroutineConstructionWitness ==
  /\ result.op = "createFiberFromCoroutine"
  /\ result.priority = 2
  /\ heap[Returned].pendingWorkPriority = 2
  /\ heap[Returned].pendingProps \in {c.id : c \in Coroutines}

\* The fields of h[n] that link it to other fibers are all empty.
Unlinked(h, n) == \A field \in FiberFields : h[n][field] = NoFiber

\* C14: root construction and the zero state of the factory.
\* createHostContainerFiber returns a newly allocated fiber of tag
\* HostContainer with key null, type null, return, child, sibling,
\* childInProgress, nextEffect, firstEffect and lastEffect empty,
\* pendingWorkPriority NoWork and alternate null; and every fiber newly
\* allocated by the element, coroutine and yield constructors has alternate
\* null and the same fields empty.
FactoryZeroState ==
  /\ result.op = "createHostContainerFiber" =>
       /\ result.fresh
       /\ Returned = Len(heap)
       /\ heap[Returned].tag = HostContainer
       /\ heap[Returned].key = Null
       /\ heap[Returned].type = NullVal
       /\ Unlinked(heap, Returned)
       /\ heap[Returned].pendingWorkPriority = NoWork
       /\ heap[Returned].alternate = NoFiber
  /\ (/\ result.fresh
      /\ result.op \in {"createFiberFromElement", "createFiberFromElementType",
                        "createFiberFromCoroutine", "createFiberFromYield"})
       => /\ Returned = Len(heap)
          /\ Unlinked(heap, Returned)
          /\ heap[Returned].alternate = NoFiber

\* createHostContainerFiber has returned the root fiber.
FactoryZeroStateWitness ==
  /\ result.op = "createHostContainerFiber"
  /\ result.fresh
  /\ heap[Returned].tag = HostContainer
  /\ heap[Returned].pendingWorkPriority = NoWork

\* C19: the passthrough writes into the existing fiber.
\* createFiberFromElement(element, p) whose element.type is an existing fiber
\* f overwrites f.pendingProps with element.props and f.pendingWorkPriority
\* with p and leaves every other field of f and every field of every other
\* fiber, f.alternate included, as it was; createFiberFromElementType alone
\* changes no field of any fiber.
PassthroughWrites ==
  [][(/\ CallsNow
      /\ result'.op \in {"createFiberFromElement", "createFiberFromElementType"}
      /\ result'.element.type.ty = "fiber")
       => LET f == result'.element.type.ref IN
          IF result'.op = "createFiberFromElementType"
          THEN heap' = heap
          ELSE /\ Len(heap') = Len(heap)
               /\ heap'[f].pendingProps = result'.element.props
               /\ heap'[f].pendingWorkPriority = result'.priority
               /\ \A field \in DOMAIN heap[f] \ {"pendingProps", "pendingWorkPriority"} :
                    heap'[f][field] = heap[f][field]
               /\ \A i \in 1..Len(heap) : i # f => heap'[i] = heap[i]]_vars

\* createFiberFromElement has written new props and a new priority into a
\* fiber that has an alternate, and the alternate has kept its own.
PassthroughWritesWitness ==
  /\ result.op = "createFiberFromElement"
  /\ result.element.type.ty = "fiber"
  /\ Paired(heap, Returned)
  /\ heap[Returned].pendingProps = result.element.props
  /\ heap[Returned].pendingWorkPriority = result.priority
  /\ heap[heap[Returned].alternate].pendingProps # result.element.props
  /\ heap[heap[Returned].alternate].pendingWorkPriority # result.priority

\* C16: interleaved passes share one alternate.  When a pass has cloned n and
\* has assigned fields of the fiber it was handed, and a second pass then
\* calls cloneFiber(n, pB), the second pass is handed the same fiber, no fiber
\* is allocated, and the stateNode, child, childInProgress, sibling and
\* pendingProps of that fiber are overwritten with the current values of n, its
\* pendingWorkPriority with pB, and its nextEffect, firstEffect and lastEffect
\* with null.
InterleavedPasses ==
  [][(/\ result.op = "assign"
      /\ ClonesNow
      /\ Paired(heap, result'.fiber)
      /\ heap[result'.fiber].alternate = result.fiber)
       => LET n == result'.fiber
              a == result.fiber
          IN /\ result'.ret = FiberVal(a)
             /\ ~result'.fresh
             /\ Len(heap') = Len(heap)
             /\ \A field \in {"stateNode", "child", "childInProgress",
                              "sibling", "pendingProps"} :
                  heap'[a][field] = heap[n][field]
             /\ heap'[a].pendingWorkPriority = result'.priority
             /\ \A field \in {"nextEffect", "firstEffect", "lastEffect"} :
                  heap'[a][field] = NoFiber]_vars

\* The first pass has assigned the output of the fiber cloneFiber allocated
\* for it, and cloneFiber on the same source has handed that fiber out again.
InterleavedPassesWitness ==
  /\ Cloned /\ ~result.fresh
  /\ position[Returned] # Returned
  /\ Source = position[Returned]
  /\ heap[Returned].output = "output1"
  /\ heap[Source].output = Null
  /\ heap[Returned].pendingProps = heap[Source].pendingProps

\* C17: cloneFiber never writes to the source.  For every fiber n whose
\* alternate is absent or another fiber, cloneFiber(n, p) leaves every field
\* of n as it was, pendingWorkPriority, pendingProps, memoizedProps, output,
\* child and the effect-list fields included; the one exception is
\* n.alternate, which the allocating call sets to the new fiber.
SourceUntouched ==
  [][(ClonesNow /\ heap[result'.fiber].alternate # result'.fiber)
       => LET n == result'.fiber IN
          /\ \A field \in DOMAIN heap[n] \ {"alternate"} :
               heap'[n][field] = heap[n][field]
          /\ heap'[n].alternate = IF Paired(heap, n) THEN heap[n].alternate
                                  ELSE result'.ret.ref
          /\ ~Paired(heap, n) <=> result'.fresh]_vars

\* cloneFiber has been called with a priority other than the source's on a
\* source whose memoizedProps and child a caller had assigned.
SourceUntouchedWitness ==
  /\ Cloned
  /\ Returned # Source
  /\ heap[Source].memoizedProps = "props1"
  /\ heap[Source].child # NoFiber
  /\ heap[Source].pendingWorkPriority # result.priority

\* C15: the defence against a mismatched pair.  When cloneFiber(n, p) is
\* called on a fiber n whose alternate is paired with another fiber
\* (n.alternate.alternate is not n), the call fails with an assertion instead
\* of returning a fiber, and changes no field of any fiber.
MismatchedPairDefence ==
  [][(/\ ClonesNow
      /\ Paired(heap, result'.fiber)
      /\ heap[heap[result'.fiber].alternate].alternate # result'.fiber)
       => /\ result'.err # NoError
          /\ result'.ret.ty # "fiber"
          /\ heap' = heap]_vars

\* C18: both generations of a pair describe the same component.  In every
\* state reached through the constructors, cloneFiber and the evaluator's
\* assignment of a concrete tag to an IndeterminateComponent fiber, the fiber
\* returned by cloneFiber(n, p) has the tag, the key and the type of n, when
\* the alternate is reused as well as when it is allocated.
SameComponent ==
  Cloned => /\ heap[Returned].tag = heap[Source].tag
            /\ heap[Returned].key = heap[Source].key
            /\ heap[Returned].type = heap[Source].type

\* C20: call and return markers are classified exactly.  unstable_isCall of an
\* object made by unstable_createCall is true and unstable_isReturn of it is
\* false; unstable_isReturn of an object made by unstable_createReturn is true
\* and unstable_isCall of it is false; both are false for null and for every
\* value that is not an object; and the key of a created call is null when the
\* key argument is null or undefined and the string form of the key otherwise.
MarkersClassified ==
  /\ marker.op = "unstable_isCall" =>
       /\ marker.from = "unstable_createCall" => marker.answer
       /\ marker.from = "unstable_createReturn" => ~marker.answer
  /\ marker.op = "unstable_isReturn" =>
       /\ marker.from = "unstable_createReturn" => marker.answer
       /\ marker.from = "unstable_createCall" => ~marker.answer
  /\ (/\ marker.op \in {"unstable_isCall", "unstable_isReturn"}
      /\ marker.object.ty \in {"null", "undefined", "number", "string",
                               "boolean", "function"})
       => ~marker.answer
  /\ marker.op = "unstable_createCall" =>
       marker.object.key =
         IF marker.key \in {NullVal, UndefinedVal} THEN NullVal
         ELSE [ty |-> "string", s |-> marker.key.s, ref |-> 0]

\* unstable_isReturn has been applied to a call made with a number as its key.
MarkersClassifiedWitness ==
  /\ marker.op = "unstable_isReturn"
  /\ marker.from = "unstable_createCall"
  /\ ~marker.answer
  /\ marker.object.key = [ty |-> "string", s |-> "42", ref |-> 0]

====
